---- MODULE Spec2Model ----
(***************************************************************************)
(* A replicated append-only message log with two consistency strategies:   *)
(* quorum writes (quorum.py) and anti-entropy gossip (gossip.py), served   *)
(* by the node's request handlers (app.py).                                *)
(*                                                                         *)
(* Every node is one process holding the list MESSAGES.  Its request       *)
(* handlers run on their own threads (app.run(threaded=True)), the quorum  *)
(* fan-out runs one worker thread per peer, and the gossip loop is one     *)
(* background thread; no lock guards MESSAGES, so every read of the list   *)
(* and every append is a step of its own.                                  *)
(***************************************************************************)
EXTENDS Naturals, Sequences, FiniteSets, TLC

\* ------------------------------------------------------------------ bounds

\* Client writes accepted over a behaviour (each gets a fresh uuid4).
MaxMsgs == 2
\* Identifiers the sequential store specification draws its records from.
MaxIds == 2
\* Longest remote batch a sequential gossip merge is given.
MaxBatch == 2

\* ------------------------------------------------------------ configuration

Nodes == {"n1", "n2", "n3"}

MODE_STRONG == "STRONG"
MODE_EVENTUAL == "EVENTUAL"

COORDINATOR_INITIAL_VOTE == 1

\* Peer lists as get_peers() returns them: the other nodes named in PEERS.
FullMesh == [n \in Nodes |-> Nodes \ {n}]
PairAndLoner == [n \in Nodes |-> IF n = "n1" THEN {"n2"}
                                 ELSE IF n = "n2" THEN {"n1"} ELSE {}]
Ring == [n \in Nodes |-> IF n = "n1" THEN {"n2"}
                         ELSE IF n = "n2" THEN {"n3"} ELSE {"n1"}]
Chain == [n \in Nodes |-> IF n = "n1" THEN {"n2", "n3"}
                          ELSE IF n = "n2" THEN {"n3"} ELSE {}]

VARIABLES
    MODE,       \* node -> MODE_STRONG | MODE_EVENTUAL   (app.py MODE)
    PEERS,      \* node -> set of peer nodes             (app.py PEERS)
    MESSAGES,   \* node -> sequence of message records   (app.py MESSAGES)
    next_uuid,  \* number of identifiers uuid4 has handed out
    cw,         \* id -> the post_message handler thread that created it
    fut,        \* id -> peer -> state of the future of _send_write_request
    hnd,        \* id -> peer -> state of the peer's internal_write handler
    gsp,        \* node -> state of the gossip thread
    t_store,    \* sequential store specification: the store
    t_hist      \* sequential store specification: the last two operations

vars == <<MODE, PEERS, MESSAGES, next_uuid, cw, fut, hnd, gsp, t_store, t_hist>>
cluster_vars == <<MODE, PEERS, MESSAGES, next_uuid, cw, fut, hnd, gsp>>
store_vars == <<t_store, t_hist>>

MsgIds == 1..MaxMsgs

\* ------------------------------------------------------------------ helpers

\* The message record post_message builds (text, user and timestamp are
\* carried unchanged and never read by the protocols).
Message(i, n) == [id |-> i, origin_node |-> n]

\* any(msg["id"] == id for msg in MESSAGES)
IsDuplicateMutant(store, id) == FALSE
IsDuplicate(store, id) == \E k \in DOMAIN store : store[k]["id"] = id

\* MESSAGES.append(message)
StoreAppendMutant(store, message) == <<message>> \o store
StoreAppend(store, message) == Append(store, message)

\* {msg["id"] for msg in self.storage}
IdSet(store) == {store[k]["id"] : k \in DOMAIN store}

\* Number of records of store carrying id.
Copies(store, id) == Cardinality({k \in DOMAIN store : store[k]["id"] = id})

NoDuplicates(store) == \A id \in IdSet(store) : Copies(store, id) = 1

\* total_nodes = len(peers) + 1
TotalNodes(peers) == Cardinality(peers) + 1

\* majority = total_nodes // 2 + 1
MajorityAll(total_nodes) == total_nodes
MajorityMutant(total_nodes) == (total_nodes + 1) \div 2
Majority(total_nodes) == total_nodes \div 2 + 1

\* if ok: votes += 1
CountVoteMutant(votes, ok) == votes + 1
CountVote(votes, ok) == IF ok THEN votes + 1 ELSE votes

\* ok = future.result(), False when the future raised
FutureOkMutant(result) == TRUE
FutureOk(result) == result = "true"

\* if votes >= majority
QuorumReachedEarly(votes, majority) == votes + 1 >= majority
QuorumReachedMutant(votes, majority) == votes > majority
QuorumReached(votes, majority) == votes >= majority

\* if not peers: quorum achieved trivially
NoPeersMutant(peers) == FALSE
NoPeers(peers) == peers = {}

\* post_message: if MODE == MODE_STRONG
UsesQuorumMutant(mode) == TRUE
UsesQuorum(mode) == mode = MODE_STRONG

\* post_message: votes = int(result[1]) of the tuple write_message_quorum
\* returned; the number goes into "replicas" or into the failure message.
ReportedVotesMajority(votes, success, majority) == majority
ReportedVotes(votes, success, majority) == votes

\* post_message: "if success:" guards the local append.
CommitLocallyMutant(success) == TRUE
CommitLocally(success) == success

\* The peers of write i whose request was answered 200 in time, counted by
\* the loop ("ack") or not yet ("true").
Acked(i) == {p \in Nodes : fut[i][p] \in {"true", "ack"}}

IdleWrite == [node |-> "none", pc |-> "idle", votes |-> 0, success |-> FALSE,
              status |-> "none", reported |-> 0]
IdleGossip == [pc |-> "sleep", peer_messages |-> <<>>, local_ids |-> {},
               new_messages |-> 0]

\* ------------------------------------------------------------ initial state

ClusterInit(modes, topologies) ==
    /\ MODE \in modes
    /\ PEERS \in topologies
    /\ MESSAGES = [n \in Nodes |-> <<>>]
    /\ next_uuid = 0
    /\ cw = [i \in MsgIds |-> IdleWrite]
    /\ fut = [i \in MsgIds |-> [p \in Nodes |-> "none"]]
    /\ hnd = [i \in MsgIds |-> [p \in Nodes |-> "none"]]
    /\ gsp = [n \in Nodes |-> IdleGossip]

StoreIdle ==
    /\ t_store = <<>>
    /\ t_hist = <<>>

\* ------------------------------------------------ post_message (app.py 46-109)

\* A client POSTs /message to node n: the handler builds the record with a
\* fresh uuid4.  In strong mode it calls write_message_quorum, which has its
\* result at once without peers and otherwise submits one _send_write_request
\* per peer to an executor of len(peers) workers, so that every request has a
\* worker of its own and is started.  In eventual mode it evaluates the
\* idempotency check on MESSAGES.
post_message(n) ==
    /\ next_uuid < MaxMsgs
    /\ LET i == next_uuid + 1 IN
       /\ next_uuid' = i
       /\ IF UsesQuorum(MODE[n])
          THEN IF NoPeers(PEERS[n])
               THEN /\ cw' = [cw EXCEPT ![i] =
                          [node |-> n, pc |-> "leaving",
                           votes |-> COORDINATOR_INITIAL_VOTE,
                           success |-> TRUE, status |-> "none", reported |-> 0]]
                    /\ UNCHANGED <<fut, hnd>>
               ELSE /\ cw' = [cw EXCEPT ![i] =
                          [node |-> n, pc |-> "collect",
                           votes |-> COORDINATOR_INITIAL_VOTE,
                           success |-> FALSE, status |-> "none", reported |-> 0]]
                    /\ fut' = [fut EXCEPT ![i] =
                          [p \in Nodes |-> IF p \in PEERS[n] THEN "running"
                                           ELSE "none"]]
                    /\ hnd' = [hnd EXCEPT ![i] =
                          [p \in Nodes |-> IF p \in PEERS[n] THEN "inflight"
                                           ELSE "none"]]
          ELSE /\ cw' = [cw EXCEPT ![i] =
                     IF IsDuplicate(MESSAGES[n], i)
                     THEN [node |-> n, pc |-> "done", votes |-> 0,
                           success |-> TRUE, status |-> "accepted", reported |-> 0]
                     ELSE [node |-> n, pc |-> "append", votes |-> 0,
                           success |-> TRUE, status |-> "none", reported |-> 0]]
               /\ UNCHANGED <<fut, hnd>>
    /\ UNCHANGED <<MODE, PEERS, MESSAGES, gsp, store_vars>>

\* ------------------------------------- internal_write (app.py 113-131)

\* What the idempotency check of internal_write leads to: a duplicate is
\* answered 200 at once ("done"), anything else goes on to the append.
InternalWriteReplyMutant(store, id) ==
    IF IsDuplicate(store, id) THEN "error" ELSE "append"
InternalWriteReply(store, id) ==
    IF IsDuplicate(store, id) THEN "done" ELSE "append"

\* The peer's handler receives the record and evaluates the idempotency check.
internal_write_check(i, p) ==
    /\ hnd[i][p] = "inflight"
    /\ hnd' = [hnd EXCEPT ![i][p] = InternalWriteReply(MESSAGES[p], i)]
    /\ UNCHANGED <<MODE, PEERS, MESSAGES, next_uuid, cw, fut, gsp, store_vars>>

\* Not a duplicate when checked: MESSAGES.append(data), then 200.
internal_write_append(i, p) ==
    /\ hnd[i][p] = "append"
    /\ MESSAGES' = [MESSAGES EXCEPT ![p] =
           StoreAppend(MESSAGES[p], Message(i, cw[i].node))]
    /\ hnd' = [hnd EXCEPT ![i][p] = "done"]
    /\ UNCHANGED <<MODE, PEERS, next_uuid, cw, fut, gsp, store_vars>>

\* ---------------------------------- _send_write_request (quorum.py 75-92)

\* The peer answered 200 within the timeout: the future's result is True.
send_write_request_ok(i, p) ==
    /\ fut[i][p] = "running"
    /\ hnd[i][p] = "done"
    /\ fut' = [fut EXCEPT ![i][p] = "true"]
    /\ UNCHANGED <<MODE, PEERS, MESSAGES, next_uuid, cw, hnd, gsp, store_vars>>

\* Timeout, transport error or non-200 status: the future's result is False.
\* The request may have reached the peer all the same, whose handler then
\* runs on, unaware.
send_write_request_fail(i, p) ==
    /\ fut[i][p] = "running"
    /\ fut' = [fut EXCEPT ![i][p] = "false"]
    /\ UNCHANGED <<MODE, PEERS, MESSAGES, next_uuid, cw, hnd, gsp, store_vars>>

\* ------------------------------- write_message_quorum (quorum.py 10-72)

\* One turn of "for future in as_completed(futures)": a completed future is
\* taken, its vote counted, and the loop either returns (majority reached),
\* goes on, or ends with every future seen.  f.cancel() leaves running and
\* finished futures as they are; a request it cancels before its worker took
\* it up behaves as one that fails at once and never reaches the peer.
ExhaustedOffByOne(i, p) ==
    {q \in PEERS[cw[i].node] : fut[i][q] \notin {"ack", "nack"}} = {}
ExhaustedEarly(i, p) == TRUE
Exhausted(i, p) ==
    {q \in PEERS[cw[i].node] \ {p} : fut[i][q] \notin {"ack", "nack"}} = {}

\* Exhausted: p's future was the last one as_completed had to yield.
as_completed(i, p) ==
    /\ cw[i].pc = "collect"
    /\ fut[i][p] \in {"true", "false"}
    /\ LET n == cw[i].node
           ok == FutureOk(fut[i][p])
           votes == CountVote(cw[i].votes, ok)
           majority == Majority(TotalNodes(PEERS[n]))
       IN
       /\ fut' = [fut EXCEPT ![i][p] =
              IF fut[i][p] = "true" THEN "ack" ELSE "nack"]
       /\ cw' = [cw EXCEPT ![i] =
              IF QuorumReached(votes, majority)
              THEN [@ EXCEPT !.votes = votes, !.pc = "leaving",
                             !.success = TRUE]
              ELSE IF Exhausted(i, p)
              THEN [@ EXCEPT !.votes = votes, !.pc = "leaving",
                             !.success = FALSE]
              ELSE [@ EXCEPT !.votes = votes]]
    /\ UNCHANGED <<MODE, PEERS, MESSAGES, next_uuid, hnd, gsp, store_vars>>

\* Leaving "with ThreadPoolExecutor(...)" runs executor.shutdown(wait=True),
\* which joins the workers: the function returns once no request is running.
ExecutorDrainedMutant(i) == TRUE
ExecutorDrained(i) == \A p \in Nodes : fut[i][p] # "running"

\* The store without the records carrying id.
Without(store, id) == SelectSeq(store, LAMBDA m : m["id"] # id)

quorum_return_rollback(i) ==
    /\ cw[i].pc = "leaving"
    /\ ExecutorDrained(i)
    /\ fut' = [fut EXCEPT ![i] = [p \in Nodes |-> "none"]]
    /\ MESSAGES' = IF cw[i].success THEN MESSAGES
                   ELSE [n \in Nodes |-> Without(MESSAGES[n], i)]
    /\ cw' = [cw EXCEPT ![i] =
           IF ~cw[i].success
           THEN [@ EXCEPT !.pc = "done", !.status = "write quorum failed",
                          !.reported = cw[i].votes]
           ELSE IF IsDuplicate(MESSAGES[cw[i].node], i)
           THEN [@ EXCEPT !.pc = "done", !.status = "committed",
                          !.reported = cw[i].votes]
           ELSE [@ EXCEPT !.pc = "append", !.reported = cw[i].votes]]
    /\ UNCHANGED <<MODE, PEERS, next_uuid, hnd, gsp, store_vars>>

\* write_message_quorum returns (success, votes) to post_message, which on
\* success evaluates the idempotency check and on failure answers 500.  The
\* executor and its futures are gone with the call.
quorum_return(i) ==
    /\ cw[i].pc = "leaving"
    /\ ExecutorDrained(i)
    /\ fut' = [fut EXCEPT ![i] = [p \in Nodes |-> "none"]]
    /\ LET majority == Majority(TotalNodes(PEERS[cw[i].node]))
           reported == ReportedVotes(cw[i].votes, cw[i].success, majority)
       IN
       cw' = [cw EXCEPT ![i] =
           IF ~CommitLocally(cw[i].success)
           THEN [@ EXCEPT !.pc = "done", !.status = "write quorum failed",
                          !.reported = reported]
           ELSE IF IsDuplicate(MESSAGES[cw[i].node], i)
           THEN [@ EXCEPT !.pc = "done", !.status = "committed",
                          !.reported = reported]
           ELSE [@ EXCEPT !.pc = "append", !.reported = reported]]
    /\ UNCHANGED <<MODE, PEERS, MESSAGES, next_uuid, hnd, gsp, store_vars>>

\* MESSAGES.append(message) of post_message, then the response.
post_message_append(i) ==
    /\ cw[i].pc = "append"
    /\ LET n == cw[i].node IN
       /\ MESSAGES' = [MESSAGES EXCEPT ![n] =
              StoreAppend(MESSAGES[n], Message(i, n))]
       /\ cw' = [cw EXCEPT ![i] =
              [@ EXCEPT !.pc = "done",
                        !.status = IF MODE[n] = MODE_EVENTUAL THEN "accepted"
                                   ELSE IF cw[i].success THEN "committed"
                                   ELSE "write quorum failed"]]
    /\ UNCHANGED <<MODE, PEERS, next_uuid, fut, hnd, gsp, store_vars>>

\* ------------------------------------------ GossipProtocol (gossip.py)

\* local_ids = {msg["id"] for msg in self.storage}
LocalIdsMutant(store) == {}
LocalIds(store) == IdSet(store)

\* for msg in peer_messages: append when its id is not in local_ids.
MergeStepMutant(g, store) ==
    LET msg == Head(g.peer_messages) IN
    IF msg["id"] \notin g.local_ids
    THEN [g |-> [g EXCEPT !.peer_messages = Tail(@),
                          !.new_messages = @ + 1],
          store |-> StoreAppend(store, msg)]
    ELSE [g |-> [g EXCEPT !.peer_messages = Tail(@)], store |-> store]
MergeStepOverwrite(g, store) ==
    LET msg == Head(g.peer_messages)
        snapshot == SelectSeq(store, LAMBDA m : m["id"] \in g.local_ids)
    IN
    IF msg["id"] \notin g.local_ids
    THEN [g |-> [g EXCEPT !.peer_messages = Tail(@),
                          !.local_ids = @ \cup {msg["id"]},
                          !.new_messages = @ + 1],
          store |-> StoreAppend(snapshot, msg)]
    ELSE [g |-> [g EXCEPT !.peer_messages = Tail(@)], store |-> store]
MergeStepInverted(g, store) ==
    LET msg == Head(g.peer_messages) IN
    IF msg["id"] \in g.local_ids
    THEN [g |-> [g EXCEPT !.peer_messages = Tail(@),
                          !.local_ids = @ \cup {msg["id"]},
                          !.new_messages = @ + 1],
          store |-> StoreAppend(store, msg)]
    ELSE [g |-> [g EXCEPT !.peer_messages = Tail(@)], store |-> store]
MergeStep(g, store) ==
    LET msg == Head(g.peer_messages) IN
    IF msg["id"] \notin g.local_ids
    THEN [g |-> [g EXCEPT !.peer_messages = Tail(@),
                          !.local_ids = @ \cup {msg["id"]},
                          !.new_messages = @ + 1],
          store |-> StoreAppend(store, msg)]
    ELSE [g |-> [g EXCEPT !.peer_messages = Tail(@)], store |-> store]

\* A round of gossip_loop on a node without peers: skipped.
gossip_skip(n) ==
    /\ MODE[n] = MODE_EVENTUAL
    /\ gsp[n].pc = "sleep"
    /\ PEERS[n] = {}
    /\ UNCHANGED vars

\* sync_with_peer: GET peer/messages answered 200 with the peer's list.
gossip_fetch(n, p) ==
    /\ MODE[n] = MODE_EVENTUAL
    /\ gsp[n].pc = "sleep"
    /\ p \in PEERS[n]
    /\ gsp' = [gsp EXCEPT ![n] =
           [@ EXCEPT !.pc = "fetched", !.peer_messages = MESSAGES[p]]]
    /\ UNCHANGED <<MODE, PEERS, MESSAGES, next_uuid, cw, fut, hnd, store_vars>>

\* sync_with_peer: timeout, transport error or non-200: the round ends.
gossip_fetch_fail_mutant(n, p) ==
    /\ MODE[n] = MODE_EVENTUAL
    /\ gsp[n].pc = "sleep"
    /\ p \in PEERS[n]
    /\ gsp' = [gsp EXCEPT ![n] = [@ EXCEPT !.pc = "stopped"]]
    /\ UNCHANGED <<MODE, PEERS, MESSAGES, next_uuid, cw, fut, hnd, store_vars>>
gossip_fetch_fail(n, p) ==
    /\ MODE[n] = MODE_EVENTUAL
    /\ gsp[n].pc = "sleep"
    /\ p \in PEERS[n]
    /\ UNCHANGED vars

\* local_ids = {msg["id"] for msg in self.storage}; new_messages = 0
gossip_snapshot(n) ==
    /\ gsp[n].pc = "fetched"
    /\ gsp' = [gsp EXCEPT ![n] =
           [@ EXCEPT !.pc = "merge", !.local_ids = LocalIds(MESSAGES[n]),
                     !.new_messages = 0]]
    /\ UNCHANGED <<MODE, PEERS, MESSAGES, next_uuid, cw, fut, hnd, store_vars>>

\* One turn of the merge loop.
gossip_merge(n) ==
    /\ gsp[n].pc = "merge"
    /\ gsp[n].peer_messages # <<>>
    /\ LET r == MergeStep(gsp[n], MESSAGES[n]) IN
       /\ gsp' = [gsp EXCEPT ![n] = r.g]
       /\ MESSAGES' = [MESSAGES EXCEPT ![n] = r.store]
    /\ UNCHANGED <<MODE, PEERS, next_uuid, cw, fut, hnd, store_vars>>

\* The merge loop is over: sync_with_peer returns and the loop sleeps.
gossip_done(n) ==
    /\ gsp[n].pc = "merge"
    /\ gsp[n].peer_messages = <<>>
    /\ gsp' = [gsp EXCEPT ![n] = IdleGossip]
    /\ UNCHANGED <<MODE, PEERS, MESSAGES, next_uuid, cw, fut, hnd, store_vars>>

\* --------------------------------------- the handlers run one at a time

\* internal_write run to its end on a store (app.py 124-131).
InternalWrite(store, data) ==
    IF IsDuplicate(store, data["id"]) THEN store ELSE StoreAppend(store, data)

\* The idempotent append of post_message (app.py 83-86 and 101-102).
PostMessageAppend(store, message) ==
    IF ~IsDuplicate(store, message["id"]) THEN StoreAppend(store, message)
    ELSE store

\* The merge loop of sync_with_peer run to its end (gossip.py 76-85).
RECURSIVE MergeLoop(_, _)
MergeLoop(g, store) ==
    IF g.peer_messages = <<>> THEN [g |-> g, store |-> store]
    ELSE LET r == MergeStep(g, store) IN MergeLoop(r.g, r.store)

\* sync_with_peer on a fetched batch: the store it leaves and new_messages.
SyncWithPeer(store, peer_messages) ==
    LET r == MergeLoop([pc |-> "merge", peer_messages |-> peer_messages,
                        local_ids |-> LocalIds(store), new_messages |-> 0],
                       store)
    IN [store |-> r.store, new_messages |-> r.g.new_messages]

StoreIds == 1..MaxIds
\* The record with identifier i, as a peer or a client hands it in.
Record(i) == Message(i, "n2")
\* The batches a peer may answer with: every sequence of records up to
\* MaxBatch long, repeated identifiers included.
Batches == UNION {[1..k -> {Record(i) : i \in StoreIds}] : k \in 0..MaxBatch}

\* The last two operations are kept, each with the store it found.
Remember(op, batch, new) ==
    LET e == [op |-> op, batch |-> batch, before |-> t_store,
              new_messages |-> new]
    IN IF Len(t_hist) < 2 THEN Append(t_hist, e) ELSE <<t_hist[2], e>>

store_internal_write(i) ==
    /\ t_store' = InternalWrite(t_store, Record(i))
    /\ t_hist' = Remember("internal_write", <<Record(i)>>,
                          Len(t_store') - Len(t_store))
    /\ UNCHANGED cluster_vars

store_post_message(i) ==
    /\ t_store' = PostMessageAppend(t_store, Record(i))
    /\ t_hist' = Remember("post_message", <<Record(i)>>,
                          Len(t_store') - Len(t_store))
    /\ UNCHANGED cluster_vars

store_sync_with_peer(batch) ==
    /\ LET r == SyncWithPeer(t_store, batch) IN
       /\ t_store' = r.store
       /\ t_hist' = Remember("sync_with_peer", batch, r.new_messages)
    /\ UNCHANGED cluster_vars

\* ----------------------------------------------------------- specifications

ClientStep == \E n \in Nodes : post_message(n)
AppendStep == \E i \in MsgIds : post_message_append(i)
QuorumStep ==
    \/ \E i \in MsgIds, p \in Nodes : internal_write_check(i, p)
    \/ \E i \in MsgIds, p \in Nodes : internal_write_append(i, p)
    \/ \E i \in MsgIds, p \in Nodes : send_write_request_ok(i, p)
    \/ \E i \in MsgIds, p \in Nodes : send_write_request_fail(i, p)
    \/ \E i \in MsgIds, p \in Nodes : as_completed(i, p)
    \/ \E i \in MsgIds : quorum_return(i)
GossipStep ==
    \/ \E n \in Nodes, p \in Nodes : gossip_fetch(n, p)
    \/ \E n \in Nodes, p \in Nodes : gossip_fetch_fail(n, p)
    \/ \E n \in Nodes : gossip_snapshot(n)
    \/ \E n \in Nodes : gossip_merge(n)
    \/ \E n \in Nodes : gossip_done(n)
    \/ \E n \in Nodes : gossip_skip(n)

\* A cluster whose nodes all run in strong mode.
StrongInit ==
    /\ ClusterInit({[n \in Nodes |-> MODE_STRONG]}, {FullMesh, PairAndLoner})
    /\ StoreIdle
StrongNext == ClientStep \/ AppendStep \/ QuorumStep
StrongSpec == StrongInit /\ [][StrongNext]_vars

\* A cluster whose nodes all run in eventual mode.
EventualInit ==
    /\ ClusterInit({[n \in Nodes |-> MODE_EVENTUAL]}, {FullMesh, Ring, PairAndLoner})
    /\ StoreIdle
EventualNext == ClientStep \/ AppendStep \/ GossipStep
EventualSpec == EventualInit /\ [][EventualNext]_vars

\* The eventual-mode cluster under the scheduling the gossip threads get: a
\* started sync runs to its end, and every node's rounds keep selecting each
\* of its peers with a fetch that succeeds.
FairTopologies == {Ring, PairAndLoner}
GossipFairness ==
    /\ \A n \in Nodes :
           WF_vars(gossip_snapshot(n) \/ gossip_merge(n) \/ gossip_done(n))
    /\ \A n \in Nodes : \A p \in UNION {t[n] : t \in FairTopologies} :
           SF_vars(gossip_fetch(n, p))
FairEventualInit ==
    /\ ClusterInit({[n \in Nodes |-> MODE_EVENTUAL]}, FairTopologies)
    /\ StoreIdle
FairEventualSpec ==
    FairEventualInit /\ [][EventualNext]_vars /\ GossipFairness

\* One node's store with its handlers and gossip merges run one at a time,
\* on every record and every batch within the bounds.
StoreInit ==
    /\ ClusterInit({[n \in Nodes |-> MODE_EVENTUAL]}, {FullMesh})
    /\ StoreIdle
StoreNext ==
    \/ \E i \in StoreIds : store_internal_write(i)
    \/ \E i \in StoreIds : store_post_message(i)
    \/ \E batch \in Batches : store_sync_with_peer(batch)
StoreSpec == StoreInit /\ [][StoreNext]_vars

\* Every node reads MODE and PEERS from its own environment, so a cluster may
\* mix the modes: here n1 coordinates quorum writes while n2 and n3 gossip.
MixedModes == [n \in Nodes |-> IF n = "n1" THEN MODE_STRONG ELSE MODE_EVENTUAL]
MixedInit ==
    /\ ClusterInit({MixedModes}, {Chain})
    /\ StoreIdle
Init == MixedInit
Next == ClientStep \/ AppendStep \/ QuorumStep \/ GossipStep
Spec == Init /\ [][Next]_vars

\* ------------------------------------------------------------------- claims

Returning(i) == cw[i].pc = "leaving"
BothPeersAcked(i) ==
    /\ Returning(i)
    /\ Cardinality(PEERS[cw[i].node]) = 2
    /\ Acked(i) = PEERS[cw[i].node]

\* C1: whatever the peers answer and in whatever order their requests
\* complete, write_message_quorum's result is committed = true exactly when
\* the local vote plus the acknowledging peers number at least
\* floor((N+1)/2) + 1, N being the number of peers.
C1_CommittedIffMajorityAcked ==
    \A i \in MsgIds : Returning(i) =>
        LET N == Cardinality(PEERS[cw[i].node]) IN
        cw[i].success <=> (1 + Cardinality(Acked(i)) >= (N + 1) \div 2 + 1)

\* A commit decided after a peer's failure was counted before a peer's ack.
C1_Witness ==
    \E i \in MsgIds : \E p, q \in Nodes :
        /\ Returning(i) /\ cw[i].success
        /\ fut[i][p] = "nack" /\ fut[i][q] = "ack"

\* C2: once the votes reach the majority the call returns (true, votes) to
\* its caller at once, whatever requests are still in flight.
C2_ReturnNeverWaits ==
    \A i \in MsgIds :
        (Returning(i) /\ cw[i].success) => ENABLED quorum_return(i)

\* C3 as stated: with two peers that both acknowledge, the result is
\* (true, 3).
C3_BothAckGivesThree ==
    \A i \in MsgIds : BothPeersAcked(i) => (cw[i].success /\ cw[i].votes = 3)

\* C3 as amended: with two peers that both acknowledge, the result is
\* (true, 2): the loop returns on the first acknowledgement it counts.
C3_BothAckGivesTwo ==
    \A i \in MsgIds : BothPeersAcked(i) => (cw[i].success /\ cw[i].votes = 2)

C3_Witness == \E i \in MsgIds : BothPeersAcked(i)

\* C4: a strong-mode client write that fails to reach quorum answers the
\* client with no change to any record of the coordinator's store, and the
\* store does not hold the new message.
C4_FailedWriteLeavesStore ==
    [][\A i \in MsgIds :
          cw'[i].status = "write quorum failed" =>
              /\ ~IsDuplicate(MESSAGES'[cw'[i].node], i)
              /\ cw[i].status # "write quorum failed" =>
                     MESSAGES'[cw'[i].node] = MESSAGES[cw'[i].node]]_vars

\* A write that failed beside a write that another node committed.
C4_Witness ==
    \E i, j \in MsgIds :
        /\ cw[i].status = "write quorum failed"
        /\ cw[j].status = "committed"
        /\ IsDuplicate(MESSAGES[cw[i].node], j)

\* C5: no two records of a node's store share an identifier.
C5_NoSharedIdentifier == \A n \in Nodes : NoDuplicates(MESSAGES[n])

\* The nodes whose records node n can come to hold in at most k rounds: a
\* round of n pulls from a node of PEERS[n].
RECURSIVE PullsFrom(_, _)
PullsFrom(n, k) ==
    IF k = 0 THEN {n}
    ELSE LET s == PullsFrom(n, k - 1) IN s \cup UNION {PEERS[m] : m \in s}

\* The peer graph is connected: every node pulls, directly or through
\* others, from every node.
Connected == \A n \in Nodes : PullsFrom(n, Cardinality(Nodes)) = Nodes

Holds(n, i) == IsDuplicate(MESSAGES[n], i)

\* C7: in an eventual-mode cluster with a connected peer graph and fair
\* gossip, a message that some node's store holds comes to be in every
\* node's store.
C7_GossipConverges ==
    \A i \in MsgIds, n \in Nodes :
        (Connected /\ \E m \in Nodes : Holds(m, i)) ~> Holds(n, i)

\* Two messages written at different nodes of a ring, both in every store.
C7_Witness ==
    /\ PEERS = Ring
    /\ cw[1].node # cw[2].node
    /\ \A i \in MsgIds, n \in Nodes : Holds(n, i)

\* An actor of node n that found identifier i absent and appends next.
AboutToAppend(n, i) ==
    \/ hnd[i][n] = "append"
    \/ cw[i].node = n /\ cw[i].pc = "append"
    \/ /\ gsp[n].pc = "merge"
       /\ gsp[n].peer_messages # <<>>
       /\ Head(gsp[n].peer_messages)["id"] = i
       /\ i \notin gsp[n].local_ids

\* C6: the duplicate check and the append are one atomic step: an actor that
\* found an identifier absent appends to a store that still lacks it.
C6_CheckThenAppendAtomic ==
    \A n \in Nodes, i \in MsgIds :
        AboutToAppend(n, i) => ~IsDuplicate(MESSAGES[n], i)

LastOp == t_hist[Len(t_hist)]
TwoSyncs ==
    /\ Len(t_hist) = 2
    /\ t_hist[1].op = "sync_with_peer"
    /\ t_hist[2].op = "sync_with_peer"
\* The last two operations applied one and the same record.
SameRecordTwice ==
    /\ Len(t_hist) = 2
    /\ Len(t_hist[1].batch) = 1
    /\ t_hist[2].batch = t_hist[1].batch

\* C8: a sync of a store holding the identifiers L with a batch holding the
\* identifiers R leaves the store holding L union R, each once, and its
\* new_messages is the number of identifiers of R that are not in L.
C8_SyncLeavesUnion ==
    (Len(t_hist) > 0 /\ LastOp.op = "sync_with_peer") =>
        LET L == IdSet(LastOp.before)
            R == IdSet(LastOp.batch)
        IN /\ IdSet(t_store) = L \cup R
           /\ NoDuplicates(t_store)
           /\ LastOp.new_messages = Cardinality(R \ L)

\* Local {m1}, remote {m1, m2}: {m1, m2} and a merged count of 1.
C8_Witness ==
    /\ Len(t_hist) > 0
    /\ LastOp.op = "sync_with_peer"
    /\ LastOp.before = <<Record(1)>>
    /\ LastOp.batch = <<Record(1), Record(2)>>
    /\ t_store = <<Record(1), Record(2)>>
    /\ LastOp.new_messages = 1

\* C9: merging R1 and then R2 into L leaves the identifiers of L, R1 and R2,
\* which are those that merging R2 and then R1 leaves; and merging the same
\* remote set a second time appends nothing.
C9_MergeCommutesAndRepeats ==
    TwoSyncs =>
        LET L == t_hist[1].before
            R1 == t_hist[1].batch
            R2 == t_hist[2].batch
        IN /\ IdSet(t_store) = IdSet(L) \cup IdSet(R1) \cup IdSet(R2)
           /\ IdSet(t_store) =
                  IdSet(SyncWithPeer(SyncWithPeer(L, R2).store, R1).store)
           /\ IdSet(R1) = IdSet(R2) =>
                  (t_hist[2].new_messages = 0 /\ t_store = t_hist[2].before)

\* Two merges of overlapping batches, each appending something.
C9_Witness ==
    /\ TwoSyncs
    /\ t_hist[1].new_messages > 0
    /\ t_hist[2].new_messages > 0
    /\ IdSet(t_hist[1].batch) \cap IdSet(t_hist[2].batch) # {}

\* C10: the same record applied a second time, by internal_write, by the
\* append of post_message or by a gossip merge, changes nothing: the store
\* holds one copy of its identifier.
C10_SecondApplicationIsNoOp ==
    SameRecordTwice =>
        /\ t_store = t_hist[2].before
        /\ Copies(t_store, t_hist[2].batch[1]["id"]) = 1

\* A record inserted by one path and applied again by another.
C10_Witness ==
    /\ SameRecordTwice
    /\ t_hist[1].new_messages = 1
    /\ t_hist[1].op = "internal_write"
    /\ t_hist[2].op = "sync_with_peer"

\* C11: a gossip round whose fetch fails changes no store and ends the
\* round only: the gossip thread is back at the top of its loop, ready for
\* the next round.
C11_FailedFetchLeavesStore ==
    [][\A n \in Nodes, p \in Nodes :
          gossip_fetch_fail(n, p) =>
              (MESSAGES' = MESSAGES /\ gsp'[n] = IdleGossip)]_vars

\* A round of n may fail on a peer that holds a message n lacks.
C11_Witness ==
    \E n \in Nodes, p \in Nodes, i \in MsgIds :
        /\ ENABLED gossip_fetch_fail(n, p)
        /\ Holds(p, i)
        /\ ~Holds(n, i)

\* store is a prefix of longer.
IsPrefix(store, longer) ==
    /\ Len(store) <= Len(longer)
    /\ \A k \in DOMAIN store : longer[k] = store[k]

\* C12: every step leaves every store with the store it found as a prefix:
\* nothing is removed, reordered or modified.
C12_AppendOnly ==
    [][\A n \in Nodes : IsPrefix(MESSAGES[n], MESSAGES'[n])]_vars

\* A store that grew by an internal write and by a gossip merge.
C12_Witness ==
    \E n \in Nodes :
        /\ Len(MESSAGES[n]) = 2
        /\ MESSAGES[n][1]["id"] # MESSAGES[n][2]["id"]
        /\ \E i \in MsgIds : hnd[i][n] = "done"
        /\ gsp[n].new_messages > 0

\* A write whose coordinator has no peers.
Alone(i) == cw[i].pc # "idle" /\ PEERS[cw[i].node] = {}

\* C13: with an empty peer list the result is (true, 1), no request is
\* sent, and the client write is committed.
C13_NoPeersCommits ==
    \A i \in MsgIds : Alone(i) =>
        /\ cw[i].success /\ cw[i].votes = 1
        /\ \A p \in Nodes : fut[i][p] = "none" /\ hnd[i][p] = "none"
        /\ cw[i].pc = "done" =>
               (cw[i].status = "committed" /\ Holds(cw[i].node, i))

C13_Witness == \E i \in MsgIds : Alone(i) /\ cw[i].pc = "done"

\* The peers of write i whose request failed, counted by the loop or not yet.
Failed(i) == {p \in Nodes : fut[i][p] \in {"false", "nack"}}

\* C14: in a cluster of three, a write whose two peer requests both fail is
\* decided (false, 1).
C14_BothFailGivesFalseOne ==
    \A i \in MsgIds :
        (/\ Returning(i)
         /\ Cardinality(PEERS[cw[i].node]) = 2
         /\ Failed(i) = PEERS[cw[i].node])
        => (~cw[i].success /\ cw[i].votes = 1)

C14_Witness ==
    \E i \in MsgIds :
        /\ Returning(i)
        /\ Cardinality(PEERS[cw[i].node]) = 2
        /\ Failed(i) = PEERS[cw[i].node]

\* The requests of write i that returned True and were taken by the loop.
Counted(i) == {p \in Nodes : fut[i][p] = "ack"}

\* C15: a failed peer request is a negative vote and nothing more: counting
\* it leaves the vote count as it was and the call in its loop or at its
\* return, and the count of a call under way is always the coordinator's vote
\* plus the acknowledgements counted; with every peer failed the call still
\* has a result.
C15_FailureIsNegativeVote ==
    [][\A i \in MsgIds :
          /\ \A p \in Nodes :
                (fut[i][p] = "false" /\ fut'[i][p] = "nack") =>
                    /\ cw'[i].votes = cw[i].votes
                    /\ cw'[i].pc \in {"collect", "leaving"}
          /\ cw'[i].pc \in {"collect", "leaving"} =>
                cw'[i].votes = 1 + Cardinality({p \in Nodes : fut'[i][p] = "ack"})
          /\ (cw'[i].pc = "collect") =>
                (\E p \in PEERS[cw'[i].node] :
                     fut'[i][p] \in {"running", "true", "false"})]_vars

\* A call that has its result although one request failed and one succeeded.
C15_Witness ==
    \E i \in MsgIds :
        /\ Returning(i)
        /\ \E p \in Nodes : fut[i][p] = "nack"
        /\ \E p \in Nodes : fut[i][p] = "ack"

\* C16: the call is decided false only with the outcome of every peer
\* request counted: none is running or waiting to be counted.
C16_FailureAfterAllOutcomes ==
    \A i \in MsgIds :
        (Returning(i) /\ ~cw[i].success) =>
            \A p \in PEERS[cw[i].node] : fut[i][p] \in {"ack", "nack"}

\* Decided false with the first request failed early and the second late.
C16_Witness ==
    \E i \in MsgIds :
        /\ Returning(i) /\ ~cw[i].success
        /\ Cardinality(PEERS[cw[i].node]) = 2
        /\ \E p \in PEERS[cw[i].node] : hnd[i][p] = "done"

\* Some step of the call of write_message_quorum for write i: a peer request
\* completes, the loop takes a completed future, or the call returns.
QuorumProgress(i) ==
    \/ \E p \in Nodes : send_write_request_ok(i, p)
    \/ \E p \in Nodes : send_write_request_fail(i, p)
    \/ \E p \in Nodes : as_completed(i, p)
    \/ quorum_return(i)

\* Every peer request completes (the requests carry a timeout) and the
\* coordinator's thread is scheduled.
QuorumFairness == \A i \in MsgIds : WF_vars(QuorumProgress(i))

FairStrongSpec == StrongInit /\ [][StrongNext]_vars /\ QuorumFairness

\* Write i is inside write_message_quorum.
InQuorumCall(i) == cw[i].pc \in {"collect", "leaving"}

\* C17: every call of write_message_quorum returns.
C17_QuorumCallReturns ==
    \A i \in MsgIds : InQuorumCall(i) ~> ~InQuorumCall(i)

\* A call waiting on two running requests.
C17_Witness ==
    \E i \in MsgIds :
        /\ cw[i].pc = "collect"
        /\ \A p \in PEERS[cw[i].node] : fut[i][p] = "running"
        /\ Cardinality(PEERS[cw[i].node]) = 2

\* Write i has left write_message_quorum.
Returned(i) == cw[i].pc \in {"append", "done"}

\* C18: the number post_message reports, in "replicas" or in the failure
\* message, is 1 plus the peer acknowledgements the loop counted, and it is
\* the number the response carries.
C18_ReportedIsTally ==
    [][\A i \in MsgIds :
          /\ (cw[i].pc = "leaving" /\ Returned(i)') =>
                cw'[i].reported = 1 + Cardinality(Counted(i))
          /\ Returned(i) => cw'[i].reported = cw[i].reported]_vars

\* A failed and a committed write of a three-node cluster have answered.
C18_Witness ==
    \E i \in MsgIds, j \in MsgIds :
        /\ cw[i].pc = "done" /\ cw[i].status = "write quorum failed"
        /\ cw[i].reported = 1
        /\ cw[j].pc = "done" /\ cw[j].status = "committed"
        /\ cw[j].reported = 2
        /\ Cardinality(PEERS[cw[j].node]) = 2

\* C19: an internal write that finds its identifier in the receiver's store
\* is answered 200 and changes no store; no internal write is answered with
\* an error.
C19_DuplicateInternalWriteAcked ==
    [][\A i \in MsgIds, p \in Nodes :
          /\ (/\ hnd[i][p] = "inflight"
               /\ hnd'[i][p] # "inflight"
               /\ IsDuplicate(MESSAGES[p], i))
              => (hnd'[i][p] = "done" /\ MESSAGES' = MESSAGES)
          /\ hnd'[i][p] # "error"]_vars

\* The coordinator counted the acknowledgement of a peer whose only copy of
\* the record came by gossip: the internal write found it there.
C19_Witness ==
    \E i \in MsgIds, p \in Nodes :
        /\ fut[i][p] = "ack"
        /\ hnd[i][p] = "done"
        /\ Copies(MESSAGES[p], i) = 1
        /\ gsp[p].pc = "merge"
        /\ gsp[p].new_messages = 1
        /\ Len(MESSAGES[p]) = 1

\* The nodes of the coordinator's cluster (itself and its peers) storing i.
Replicas(i) ==
    {n \in {cw[i].node} \cup PEERS[cw[i].node] : Holds(n, i)}

\* C20: a record in its coordinator's store is in the stores of at least
\* floor((N+1)/2) + 1 of the N+1 nodes, in every state from then on.
C20_CommittedOnMajority ==
    \A i \in MsgIds :
        (cw[i].pc # "idle" /\ Holds(cw[i].node, i)) =>
            Cardinality(Replicas(i)) >=
                (Cardinality(PEERS[cw[i].node]) + 1) \div 2 + 1

\* Committed in a cluster of three with exactly the majority storing it.
C20_Witness ==
    \E i \in MsgIds :
        /\ cw[i].pc = "done"
        /\ Holds(cw[i].node, i)
        /\ Cardinality(PEERS[cw[i].node]) = 2
        /\ Cardinality(Replicas(i)) = 2

\* C21: with at least one peer, a call decided true returns exactly
\* floor((N+1)/2) + 1 votes, however many peers acknowledged.
C21_SuccessVotesAreMajority ==
    \A i \in MsgIds :
        (Returning(i) /\ cw[i].success /\ PEERS[cw[i].node] # {}) =>
            cw[i].votes = (Cardinality(PEERS[cw[i].node]) + 1) \div 2 + 1

\* Decided true with a second acknowledgement completed and never counted.
C21_Witness ==
    \E i \in MsgIds :
        /\ Returning(i) /\ cw[i].success
        /\ \E p \in Nodes : fut[i][p] = "ack"
        /\ \E p \in Nodes : fut[i][p] = "true"

\* The client of write i was told that the write failed.
ToldFailed(i) == cw[i].pc = "done" /\ cw[i].status = "write quorum failed"

\* C22: a peer that answered the internal write of i holds i, in every
\* state from then on, whatever became of the commit.
C22_NoRollback ==
    \A i \in MsgIds, p \in Nodes : hnd[i][p] = "done" => Holds(p, i)

\* The client was told the write failed, the coordinator does not hold the
\* message, and one of its two peers does.
C22_Witness ==
    \E i \in MsgIds :
        /\ ToldFailed(i)
        /\ ~Holds(cw[i].node, i)
        /\ Cardinality(PEERS[cw[i].node]) = 2
        /\ Cardinality({p \in PEERS[cw[i].node] : Holds(p, i)}) = 1
        /\ \E p \in PEERS[cw[i].node] : hnd[i][p] = "done"

\* C23: a client write in eventual mode contacts no peer, waits for nothing
\* and ends accepted with its record in the receiving node's store.
C23_EventualWriteAccepted ==
    \A i \in MsgIds : cw[i].pc # "idle" =>
        /\ cw[i].pc \in {"append", "done"}
        /\ \A p \in Nodes : fut[i][p] = "none" /\ hnd[i][p] = "none"
        /\ cw[i].pc = "append" => ENABLED post_message_append(i)
        /\ cw[i].pc = "done" =>
               (cw[i].status = "accepted" /\ Holds(cw[i].node, i))

\* Accepted on a node with two peers, neither of which holds the record.
C23_Witness ==
    \E i \in MsgIds :
        /\ cw[i].pc = "done" /\ cw[i].status = "accepted"
        /\ Cardinality(PEERS[cw[i].node]) = 2
        /\ \A p \in PEERS[cw[i].node] : ~Holds(p, i)

\* C24: a turn of the merge loop leaves the record it handled in the store,
\* a client append leaves the client's record in the store, and neither
\* takes away an identifier the store held; a client write that has answered
\* is in its node's store.
C24_NoLostUpdate ==
    [][\A n \in Nodes :
          /\ IdSet(MESSAGES[n]) \subseteq IdSet(MESSAGES'[n])
          /\ (/\ gsp[n].pc = "merge"
               /\ gsp[n].peer_messages # <<>>
               /\ gsp'[n] # gsp[n])
              => Head(gsp[n].peer_messages)["id"] \in IdSet(MESSAGES'[n])
          /\ \A i \in MsgIds :
                (cw'[i].pc = "done" /\ cw'[i].node = n) =>
                    i \in IdSet(MESSAGES'[n])]_vars

\* The merge took its snapshot before the client's append and appended a
\* remote record after it; both operations are over and both records stored.
C24_Witness ==
    \E n \in Nodes, i \in MsgIds, j \in MsgIds :
        /\ cw[i].node = n /\ cw[i].pc = "done"
        /\ cw[j].node # n
        /\ gsp[n].pc = "merge" /\ gsp[n].peer_messages = <<>>
        /\ gsp[n].local_ids = {j}
        /\ MESSAGES[n] = <<Message(i, n), Message(j, cw[j].node)>>

====
